---- MODULE Spec2Model ----
(***************************************************************************)
(* Model of the bitmask powerset of examples/lattice.rs (Powerset<N>) and  *)
(* of the lattice contracts of src/lattice.rs and src/sets.rs it           *)
(* implements.                                                             *)
(*                                                                         *)
(* A u64 is modelled bit for bit, as the set of the positions of its set   *)
(* bits (positions 0..WIDTH-1), so that every bitwise operation keeps the  *)
(* width of the machine word.                                              *)
(***************************************************************************)
EXTENDS Integers, Sequences, FiniteSets

\* Width of the mask field (u64).
WIDTH == 64

\* Largest small universe size explored exhaustively.
MaxN == 2

\* Longest index sequence handed to from_iter.
MaxLen == 2

\* Most elements of a set that is drained in place by next.
MaxDrain == 2

\* N        the universe size, the const parameter of Powerset<N>
\* regs     the Powerset values the program holds in variables
\* last     the last call: its operands and what it returned
\* it       a Powerset being drained as an iterator, with what it has yielded
\* panicked the program has ended in a panic
VARIABLES N, regs, last, it, panicked

vars == <<N, regs, last, it, panicked>>

----------------------------------------------------------------------------
(* 64-bit words as sets of bit positions *)

Bits == 0 .. (WIDTH - 1)

\* The literals 0 and 1 as u64.
Zero == {}
One == {0}

Not(m) == Bits \ m
And(m, k) == m \cap k
Or(m, k) == m \cup k
Xor(m, k) == (m \ k) \cup (k \ m)

\* m << k and m >> k for a shift amount k < WIDTH: bits shifted out are lost.
Shl(m, k) == {i + k : i \in {j \in m : j + k < WIDTH}}
Shr(m, k) == {i - k : i \in {j \in m : j >= k}}

SetMin(s) == CHOOSE i \in s : \A j \in s : i <= j
SetMax(s) == CHOOSE i \in s : \A j \in s : j <= i

trailing_zeros(m) == IF m = Zero THEN WIDTH ELSE SetMin(m)
count_ones(m) == Cardinality(m)

\* Numeric comparison of two u64 (u64::cmp): the highest differing bit decides.
u64_cmp(m, k) ==
    IF m = k THEN "Equal"
    ELSE IF SetMax(Xor(m, k)) \in k THEN "Less" ELSE "Greater"

----------------------------------------------------------------------------
(* Powerset<N>: the pure functions *)

Powerset(m) == [mask |-> m]

\* Universe sizes explored: the small ones, and the two largest the word holds.
Sizes == (0 .. MaxN) \cup {WIDTH - 1, WIDTH}

\* Element indices handed to from_iter, all below N.
ProbeIdx == IF N <= MaxN THEN 0 .. (N - 1) ELSE {0, N - 1}

IdxSeqs == UNION {[1 .. k -> ProbeIdx] : k \in 0 .. MaxLen}

RECURSIVE fold_or(_, _)
fold_or(s, acc) ==
    IF s = <<>> THEN acc
    ELSE fold_or(Tail(s), Or(acc, Shl(One, Head(s))))

from_iter(s) == Powerset(fold_or(s, Zero))

infimum == Powerset(Zero)

\* The shift amount of supremum, 64 - N, and whether it overflows the
\* width of the word (N = 0).
supremum_shift == WIDTH - N
ShiftOverflows == supremum_shift >= WIDTH

\* Mutant of supremum: the shift that restricts the mask to N bits is left out.
supremum_all_ones == Powerset(Not(Zero))

\* The value supremum returns when it returns: the shift amount wraps to the
\* width of the word in a build without overflow checks.
supremum == Powerset(Shr(Not(Zero), supremum_shift % WIDTH))

\* Mutant of join: an upper bound of the two, but not the least one.
join_top(self, other) == supremum

join(self, other) == Powerset(Or(self.mask, other.mask))

\* Mutant of meet: ^ in the place of &.
meet_xor(self, other) == Powerset(Xor(self.mask, other.mask))

meet(self, other) == Powerset(And(self.mask, other.mask))

\* Mutant of complement: the negated mask is not cut back to N bits.
complement_unmasked(self) == Powerset(Not(self.mask))

complement(self) == Powerset(And(Not(self.mask), supremum.mask))

sym_diff(self, other) == Powerset(Xor(self.mask, other.mask))

\* Mutant of partial_cmp: the masks compared as numbers, as a derived
\* PartialOrd would.
partial_cmp_numeric(self, other) == u64_cmp(self.mask, other.mask)

partial_cmp(self, other) ==
    LET m == And(self.mask, other.mask)
    IN  IF self.mask = m /\ other.mask = m THEN "Equal"
        ELSE IF self.mask = m THEN "Less"
        ELSE IF other.mask = m THEN "Greater"
        ELSE "None"

\* a <= b of PartialOrd, derived from partial_cmp.
le(self, other) == partial_cmp(self, other) \in {"Less", "Equal"}

\* Mutant of cmp: the operands are swapped.
cmp_reversed(self, other) == u64_cmp(other.mask, self.mask)

\* The derived Ord: the masks compared as numbers.
cmp(self, other) == u64_cmp(self.mask, other.mask)

\* Option<usize>: None, or Some(v).
None == <<>>
Some(v) == <<v>>

\* Mutant of next: the highest set bit is taken, not the lowest.
next_highest(self) ==
    IF self.mask = Zero
    THEN [item |-> None, self |-> self]
    ELSE LET lz == SetMax(self.mask)
         IN  [item |-> Some(lz),
              self |-> Powerset(And(self.mask, Not(Shl(One, lz))))]

\* One call of Iterator::next: the item returned and the receiver afterwards.
next(self) ==
    IF self.mask = Zero
    THEN [item |-> None, self |-> self]
    ELSE LET tz == trailing_zeros(self.mask)
         IN  [item |-> Some(tz),
              self |-> Powerset(And(self.mask, Not(Shl(One, tz))))]

len(self) == count_ones(self.mask)

\* The entries Display hands to debug_set: next is called on a copy of the
\* receiver until it returns None.
RECURSIVE entries(_)
entries(copy) ==
    LET r == next(copy)
    IN  IF r.item = None THEN <<>> ELSE <<r.item[1]>> \o entries(r.self)

fmt(self) == entries(self)

----------------------------------------------------------------------------
(* State *)

Regs == {"a", "b"}

\* No call has returned a value that is still unbound.
NoCall == [op |-> "none", r1 |-> "-", r2 |-> "-", x |-> infimum, y |-> infimum, z |-> infimum,
           val |-> infimum, val2 |-> infimum, ord |-> "-", items |-> <<>>]

\* A fresh iterator over a copy of self.
Iter(self) == [self |-> self, start |-> self, yielded |-> <<>>,
               done |-> FALSE]

Init ==
    /\ N \in Sizes
    /\ regs = [r \in Regs |-> infimum]
    /\ last = NoCall
    /\ it = Iter(infimum)
    /\ panicked = FALSE

\* A call that reaches supremum with N = 0 in a build with overflow checks:
\* the shift panics and the program ends.
Panics(opname) ==
    /\ ShiftOverflows
    /\ panicked' = TRUE
    /\ last' = [NoCall EXCEPT !.op = opname]
    /\ UNCHANGED <<N, regs, it>>

Returns(rec) ==
    /\ last' = rec
    /\ UNCHANGED <<N, regs, it, panicked>>

FromIter(s) ==
    /\ ~panicked
    /\ Returns([NoCall EXCEPT !.op = "from_iter", !.items = s,
                              !.val = from_iter(s)])

Infimum ==
    /\ ~panicked
    /\ Returns([NoCall EXCEPT !.op = "infimum", !.val = infimum])

Supremum ==
    /\ ~panicked
    /\ \/ Returns([NoCall EXCEPT !.op = "supremum", !.val = supremum])
       \/ Panics("supremum")

Join(r1, r2) ==
    /\ ~panicked
    /\ Returns([NoCall EXCEPT !.op = "join", !.r1 = r1, !.r2 = r2,
                              !.x = regs[r1], !.y = regs[r2],
                              !.val = join(regs[r1], regs[r2])])

Meet(r1, r2) ==
    /\ ~panicked
    /\ Returns([NoCall EXCEPT !.op = "meet", !.r1 = r1, !.r2 = r2,
                              !.x = regs[r1], !.y = regs[r2],
                              !.val = meet(regs[r1], regs[r2])])

Complement(r) ==
    /\ ~panicked
    /\ \/ Returns([NoCall EXCEPT !.op = "complement", !.r1 = r, !.x = regs[r],
                                 !.val = complement(regs[r])])
       \/ Panics("complement")

SymDiff(r1, r2) ==
    /\ ~panicked
    /\ Returns([NoCall EXCEPT !.op = "sym_diff", !.r1 = r1, !.r2 = r2,
                              !.x = regs[r1],
                              !.y = regs[r2],
                              !.val = sym_diff(regs[r1], regs[r2])])

PartialCmp(r1, r2) ==
    /\ ~panicked
    /\ Returns([NoCall EXCEPT !.op = "partial_cmp", !.r1 = r1, !.r2 = r2,
                              !.x = regs[r1],
                              !.y = regs[r2],
                              !.ord = partial_cmp(regs[r1], regs[r2])])

Cmp(r1, r2) ==
    /\ ~panicked
    /\ Returns([NoCall EXCEPT !.op = "cmp", !.r1 = r1, !.r2 = r2,
                              !.x = regs[r1], !.y = regs[r2],
                              !.ord = cmp(regs[r1], regs[r2])])

\* Mutant of Fmt: the receiver itself is drained, not a copy of it.
FmtDrains(r) ==
    /\ ~panicked
    /\ regs' = [regs EXCEPT ![r] = infimum]
    /\ last' = [NoCall EXCEPT !.op = "fmt", !.r1 = r, !.x = regs[r],
                              !.items = fmt(regs[r])]
    /\ UNCHANGED <<N, it, panicked>>

Fmt(r) ==
    /\ ~panicked
    /\ Returns([NoCall EXCEPT !.op = "fmt", !.r1 = r, !.x = regs[r],
                              !.items = fmt(regs[r])])

\* r.next() on a variable of the program: the receiver is &mut self.
NextCall(r) ==
    /\ ~panicked
    /\ len(regs[r]) <= MaxDrain
    /\ LET res == next(regs[r])
       IN  /\ regs' = [regs EXCEPT ![r] = res.self]
           /\ last' = [NoCall EXCEPT !.op = "next", !.r1 = r, !.x = regs[r],
                                     !.val = res.self, !.items = res.item]
    /\ UNCHANGED <<N, it, panicked>>

\* let r = <the value the last call returned>
LetBind(r) ==
    /\ ~panicked
    /\ last.op \in {"from_iter", "infimum", "supremum", "join", "meet",
                    "complement", "sym_diff", "main_sym_diff"}
    /\ regs' = [regs EXCEPT ![r] = last.val]
    /\ last' = NoCall
    /\ UNCHANGED <<N, it, panicked>>

\* main: a.join(&b).meet(&a.complement().join(&b.complement()).complement())
MainSymDiff(r1, r2) ==
    /\ ~panicked
    /\ \/ LET a == regs[r1]
              b == regs[r2]
          IN  Returns([NoCall EXCEPT
                  !.op = "main_sym_diff", !.x = a, !.y = b,
                  !.val = meet(join(a, b),
                               complement(join(complement(a),
                                               complement(b))))])
       \/ Panics("main_sym_diff")

\* main: the operands of the two assert_eq! of the Boolean algebra laws.
MainLaws(r) ==
    /\ ~panicked
    /\ \/ LET a == regs[r]
          IN  Returns([NoCall EXCEPT
                  !.op = "main_laws", !.x = a,
                  !.val = join(a, complement(a)),
                  !.val2 = meet(a, complement(a))])
       \/ Panics("main_laws")

\* main: c is collected from an index sequence, then lhs and rhs of the
\* distributive law check are computed.
MainDistributive(r1, r2, s) ==
    /\ ~panicked
    /\ LET a == regs[r1]
           b == regs[r2]
           c == from_iter(s)
       IN  Returns([NoCall EXCEPT
               !.op = "main_distributive", !.x = a, !.y = b, !.z = c,
               !.val = join(a, meet(b, c)),
               !.val2 = meet(join(a, b), join(a, c))])

Next ==
    \/ \E s \in IdxSeqs : FromIter(s)
    \/ Infimum
    \/ Supremum
    \/ \E r1, r2 \in Regs : Join(r1, r2)
    \/ \E r1, r2 \in Regs : Meet(r1, r2)
    \/ \E r \in Regs : Complement(r)
    \/ \E r1, r2 \in Regs : SymDiff(r1, r2)
    \/ \E r1, r2 \in Regs : PartialCmp(r1, r2)
    \/ \E r1, r2 \in Regs : Cmp(r1, r2)
    \/ \E r \in Regs : Fmt(r)
    \/ \E r \in Regs : NextCall(r)
    \/ \E r \in Regs : LetBind(r)
    \/ \E r1, r2 \in Regs : MainSymDiff(r1, r2)
    \/ \E r \in Regs : MainLaws(r)
    \/ \E r1, r2 \in Regs, s \in IdxSeqs : MainDistributive(r1, r2, s)

Spec == Init /\ [][Next]_vars

----------------------------------------------------------------------------
(* Draining one value: the iterator with the history of what it yielded *)

\* The values an iteration starts from: collected sets, their complements and
\* the whole universe.
StartValues ==
    {from_iter(s) : s \in IdxSeqs}
        \cup {complement(from_iter(s)) : s \in IdxSeqs}
        \cup {supremum, infimum}

\* into_iter: a Powerset is Copy and is its own iterator.
IntoIter(v) ==
    /\ it' = Iter(v)
    /\ UNCHANGED <<N, regs, last, panicked>>

\* it.next(): the receiver is the iterator itself (&mut self).
IterNext ==
    /\ LET res == next(it.self)
       IN  it' = [self |-> res.self,
                  start |-> it.start,
                  yielded |-> IF res.item = None THEN it.yielded
                              ELSE Append(it.yielded, res.item[1]),
                  done |-> it.done \/ res.item = None]
    /\ UNCHANGED <<N, regs, last, panicked>>

NextIter ==
    \/ \E v \in StartValues : IntoIter(v)
    \/ IterNext

SpecIter == Init /\ [][NextIter]_vars

----------------------------------------------------------------------------
(* Properties *)

\* A value of Powerset<N> is valid when no bit at a position >= N is set.
Valid(p) == p.mask \subseteq 0 .. (N - 1)

\* Every Powerset value the state holds.
StateValues ==
    {regs[r] : r \in Regs}
        \cup {last.x, last.y, last.z, last.val, last.val2}
        \cup {it.self, it.start}

\* Values a bound of two operands is compared against.
Samples ==
    {regs[r] : r \in Regs} \cup {from_iter(s) : s \in IdxSeqs}
        \cup {supremum, infimum}

Subset(p, q) == p.mask \subseteq q.mask

\* C1: for 1 <= N <= 64, every value reached through from_iter (indices
\* below N), infimum, supremum, join, meet, complement, sym_diff and next has
\* no mask bit at a position >= N.
C1_MaskBelowN == (N >= 1) => \A p \in StateValues : Valid(p)

C1_Witness ==
    /\ N = WIDTH
    /\ last.op = "complement"
    /\ last.x.mask # Zero
    /\ (WIDTH - 1) \in last.val.mask

\* C2: for every valid a, join(a, complement(a)) is supremum() and
\* meet(a, complement(a)) is infimum().
C2_ComplementLaws ==
    (last.op = "main_laws" /\ ~panicked /\ Valid(last.x))
        => (last.val = supremum /\ last.val2 = infimum)

C2_Witness ==
    /\ last.op = "main_laws"
    /\ ~panicked
    /\ Valid(last.x)
    /\ last.x \notin {infimum, supremum}

\* C3: for valid a, b, c, join(a, meet(b, c)) is meet(join(a, b), join(a, c))
\* and meet(a, join(b, c)) is join(meet(a, b), meet(a, c)).
C3_Distributive ==
    (last.op = "main_distributive"
        /\ Valid(last.x) /\ Valid(last.y) /\ Valid(last.z))
        => /\ last.val = last.val2
           /\ meet(last.x, join(last.y, last.z))
                = join(meet(last.x, last.y), meet(last.x, last.z))

C3_Witness ==
    /\ last.op = "main_distributive"
    /\ ~Subset(last.x, last.y) /\ ~Subset(last.y, last.x)
    /\ ~Subset(last.x, last.z) /\ ~Subset(last.z, last.x)
    /\ ~Subset(last.y, last.z) /\ ~Subset(last.z, last.y)

\* C4: partial_cmp(a, b) is None exactly when neither mask is a subset of the
\* other; otherwise Equal for equal masks, Less for a proper subset and
\* Greater for a proper superset.
C4_PartialCmp ==
    last.op = "partial_cmp" =>
        /\ last.ord = "None"
             <=> (~Subset(last.x, last.y) /\ ~Subset(last.y, last.x))
        /\ last.x = last.y => last.ord = "Equal"
        /\ (Subset(last.x, last.y) /\ last.x # last.y) => last.ord = "Less"
        /\ (Subset(last.y, last.x) /\ last.x # last.y) => last.ord = "Greater"

C4_Witness ==
    /\ last.op = "partial_cmp"
    /\ last.ord = "None"

\* C5: join(a, b) is the least upper bound of a and b under partial_cmp and
\* meet(a, b) the greatest lower bound, incomparable a and b included.
C5_JoinMeetBounds ==
    /\ last.op = "join" =>
        /\ le(last.x, last.val)
        /\ le(last.y, last.val)
        /\ \A c \in Samples :
             (le(last.x, c) /\ le(last.y, c)) => le(last.val, c)
    /\ last.op = "meet" =>
        /\ le(last.val, last.x)
        /\ le(last.val, last.y)
        /\ \A c \in Samples :
             (le(c, last.x) /\ le(c, last.y)) => le(c, last.val)

C5_Witness ==
    /\ last.op = "join"
    /\ partial_cmp(last.x, last.y) = "None"
    /\ \E c \in Samples :
         c # last.val /\ le(last.x, c) /\ le(last.y, c)

\* C6: repeated next yields every set bit position of the starting mask
\* once, in strictly ascending order, returns None after exactly
\* popcount(mask) successful calls and on every later call, and len() is the
\* number of elements still to be yielded.
C6_Drain ==
    LET y == it.yielded
        n == Len(y)
        total == count_ones(it.start.mask)
    IN  /\ \A i, j \in 1 .. n : i < j => y[i] < y[j]
        /\ {y[i] : i \in 1 .. n} \subseteq it.start.mask
        /\ len(it.self) = total - n
        /\ next(it.self).item = None <=> n = total
        /\ it.done => /\ n = total
                      /\ {y[i] : i \in 1 .. n} = it.start.mask
                      /\ next(it.self).item = None

C6_Witness ==
    /\ it.done
    /\ Len(it.yielded) >= 2
    /\ (WIDTH - 1) \in it.start.mask

\* C7: the symmetric difference main computes through join, meet and
\* complement equals sym_diff(a, b), the XOR of the masks.
C7_SymDiffIdentity ==
    (last.op = "main_sym_diff" /\ ~panicked
        /\ Valid(last.x) /\ Valid(last.y))
        => last.val = sym_diff(last.x, last.y)

\* C8: for every N <= 64, supremum() returns the mask of exactly the bits
\* 0..N-1 and infimum() the zero mask, so that infimum() <= x <= supremum()
\* for every valid x.
C8_Bounds ==
    /\ last.op = "supremum" =>
         (~panicked /\ last.val.mask = 0 .. (N - 1))
    /\ last.op = "infimum" => last.val.mask = Zero
    /\ \A r \in Regs :
         (~panicked /\ Valid(regs[r]))
             => (le(infimum, regs[r]) /\ le(regs[r], supremum))

\* The operations that take their receiver and arguments by shared reference.
SharedRefOps ==
    {"join", "meet", "complement", "sym_diff", "partial_cmp", "fmt"}

\* After the last call the receiver and the argument hold what they held
\* when it was made.
OperandsUntouched ==
    /\ regs[last.r1] = last.x
    /\ last.r2 # "-" => regs[last.r2] = last.y

\* C9 as stated: no operation, next included, changes the mask of its
\* receiver or of an argument.
C9_NoMutation ==
    (~panicked /\ last.op \in SharedRefOps \cup {"next"})
        => OperandsUntouched

\* C9 as amended: join, meet, complement, sym_diff, partial_cmp and Display
\* leave the masks of the receiver and of every argument as they were; next
\* clears the lowest set bit of its receiver, and leaves a zero mask as it is.
C9_OnlyNextMutates ==
    /\ (~panicked /\ last.op \in SharedRefOps) => OperandsUntouched
    /\ last.op = "next" =>
         regs[last.r1].mask =
             IF last.x.mask = {} THEN {}
             ELSE last.x.mask \ {SetMin(last.x.mask)}

C9_Witness ==
    /\ last.op = "next"
    /\ last.x # last.val
    /\ last.val.mask # Zero

\* C10: whenever partial_cmp(a, b) is Some(o), the derived cmp(a, b) is o.
C10_OrdConsistent ==
    /\ (last.op = "cmp" /\ partial_cmp(last.x, last.y) # "None")
         => last.ord = partial_cmp(last.x, last.y)
    /\ (last.op = "partial_cmp" /\ last.ord # "None")
         => cmp(last.x, last.y) = last.ord

C10_Witness ==
    /\ last.op = "cmp"
    /\ partial_cmp(last.x, last.y) = "Greater"
    /\ last.ord = "Greater"

====
